---- MODULE Spec2Model ----
(***************************************************************************)
(* pest-web-debug: the debugger worker (src/src/debugworker.rs) and the    *)
(* yew front-end that drives it (src/src/lib.rs).                          *)
(*                                                                         *)
(* The worker owns a DebuggerContext (grammar, input, breakpoints) and     *)
(* answers WorkerInput commands with DebuggerEvent values.  The App keeps  *)
(* an AppState and talks to the worker over two FIFO channels.             *)
(*                                                                         *)
(* pest_meta::parse_and_optimize and pest_vm::Vm are external crates: the  *)
(* compiler is a table from grammar text to rule names or failure, the     *)
(* engine's outcome (the rule entries it reports to the listener and its   *)
(* final Ok/Err) is chosen nondeterministically at each run; grammar and   *)
(* input texts are opaque to it.                                           *)
(*                                                                         *)
(* SpecWorker is the worker answering an arbitrary caller, one command at  *)
(* a time.  SpecSteps is the worker followed through a run step by step    *)
(* (clone, listener calls, responds), with commands sent to it meanwhile.  *)
(* Spec is the App with its worker: the user's messages (those the         *)
(* rendered view can send), the worker's turns and the deliveries of its   *)
(* events interleave.  SpecQueued is the App sending loads and runs while  *)
(* commands sent before still wait for the worker.                         *)
(***************************************************************************)
EXTENDS Integers, Sequences, FiniteSets, TLC

VARIABLES
    debugger_context,   \* Worker.debugger_context: [grammar, input, breakpoints]
    toWorker,           \* WorkerInput values sent by the App, not yet handled
    toApp,              \* DebuggerEvent values responded, not yet delivered
    state,              \* App.state: AppState
    handled,            \* history: the command the worker handled last, if
                        \* none was sent since
    loads,              \* history: last successful compile, failed load since
    answer,             \* history: how many events the worker responded to
                        \* the App's latest Run, and how many are delivered
    continued,          \* history: the queue a Continue found, when Continue
                        \* is the last message App::update handled
    addedAll,           \* history: add_all_rules_breakpoints has succeeded, and
                        \* no grammar was stored and no breakpoint removed since
    job                 \* the call of DebuggerContext::handle in progress, when
                        \* the worker is followed through it step by step

vars ==
    <<debugger_context, toWorker, toApp, state, handled, loads, answer,
      continued, addedAll, job>>

-----------------------------------------------------------------------------
(* Bounds *)

\* longest sequence of rule entries the engine reports in one run, for the
\* worker on its own
MaxEntries == 2
\* the same, for the worker driven by the App and for the worker followed
\* step by step
MaxAppEntries == 1
\* most events kept in the App's queue
MaxEvents == 3
\* most commands waiting for the worker, when it is followed step by step
MaxPending == 1
\* most commands of the App waiting for the worker, when the App does not
\* wait for the worker to take them
MaxQueued == 3

-----------------------------------------------------------------------------
(* Option<T> and Result<T, E> *)

None == [some |-> FALSE]
Some(v) == [some |-> TRUE, val |-> v]

Ok(v) == [ok |-> TRUE, val |-> v]
Err(e) == [ok |-> FALSE, err |-> e]

SeqsUpTo(S, n) == UNION {[1..k -> S] : k \in 0..n}

Range(s) == {s[i] : i \in 1..Len(s)}

-----------------------------------------------------------------------------
(* Texts and the external grammar compiler *)

\* AppState::default().grammar.  The text defines alpha, digit, ident and
\* ident_list; the model keeps two of its rules (the code treats the rules of
\* a grammar uniformly, as a list of names)
DefaultGrammar == "ident = { (alpha | digit)+ } ident_list = _{ ... }"
\* another text that compiles, to a grammar without ident_list
IdentGrammar == "ident = { ASCII_ALPHA+ }"
\* a text that does not compile
BadGrammar == "ident = {"

GrammarTexts == {DefaultGrammar, IdentGrammar, BadGrammar}

\* AppState::default().input
DefaultInput == "hello world"
OtherInput == "hello"

InputTexts == {DefaultInput, OtherInput}

DefaultRules == <<"ident", "ident_list">>

RuleNames == Range(DefaultRules)

\* pest_meta::parse_and_optimize: the ast is kept as its rules' names, in order
parse_and_optimize(grammar) ==
    CASE grammar = DefaultGrammar -> Ok(DefaultRules)
      [] grammar = IdentGrammar -> Ok(<<"ident">>)
      [] OTHER -> Err("errors")

\* error messages
GrammarNotOpened == "DebuggerError::GrammarNotOpened"
InputNotOpened == "DebuggerError::InputNotOpened"
ErrorParsing == "error parsing"
ParseFailed == "parsing error"

-----------------------------------------------------------------------------
(* DebuggerEvent *)

Breakpoint(rule, pos) == [type |-> "Breakpoint", rule |-> rule, pos |-> pos]
Eof == [type |-> "Eof"]
Error(msg) == [type |-> "Error", msg |-> msg]
Rules(names) == [type |-> "Rules", rules |-> names]

(* WorkerInput *)

LoadGrammar(text) == [type |-> "LoadGrammar", arg |-> text]
LoadInput(text) == [type |-> "LoadInput", arg |-> text]
AddBreakpoint(rule) == [type |-> "AddBreakpoint", arg |-> rule]
DeleteBreakpoint(rule) == [type |-> "DeleteBreakpoint", arg |-> rule]
DeleteAllBreakpoints == [type |-> "DeleteAllBreakpoints", arg |-> ""]
AddAllRulesBreakpoints == [type |-> "AddAllRulesBreakpoints", arg |-> ""]
Run(rule) == [type |-> "Run", arg |-> rule]

WorkerInput ==
    {LoadGrammar(t) : t \in GrammarTexts} \cup {LoadInput(t) : t \in InputTexts}
    \cup {AddBreakpoint(r) : r \in RuleNames}
    \cup {DeleteBreakpoint(r) : r \in RuleNames}
    \cup {DeleteAllBreakpoints, AddAllRulesBreakpoints}
    \cup {Run(r) : r \in RuleNames}

-----------------------------------------------------------------------------
(* The external execution engine *)

\* the input positions the engine reports
Positions == {0, 1}
\* the same, for the worker driven by the App (App::update never looks into
\* the position of a Breakpoint)
AppPositions == {0}

\* what one Vm::parse does: the (rule, pos) pairs it hands to the listener,
\* in order, and whether it returns Ok
VmOutcomes(ast, max, positions) ==
    {[entries |-> e, ok |-> b] :
        e \in SeqsUpTo(Range(ast) \X positions, max), b \in BOOLEAN}

NoVm == [entries |-> <<>>, ok |-> TRUE]

-----------------------------------------------------------------------------
(* DebuggerContext *)

DefaultContext == [grammar |-> None, input |-> None, breakpoints |-> {}]

parse_grammar(grammar) ==
    LET r == parse_and_optimize(grammar)
    IN  IF r.ok THEN Ok(r.val) ELSE Err(ErrorParsing)

\* each operation yields the context it leaves and the Result it returns

\* bug: the grammar is taken out before the new text is compiled
load_grammar_direct_Take(ctx, grammar) ==
    LET r == parse_grammar(grammar)
    IN  IF r.ok
        THEN [ctx |-> [ctx EXCEPT !.grammar = Some(r.val)], res |-> Ok("")]
        ELSE [ctx |-> [ctx EXCEPT !.grammar = None], res |-> Err(r.err)]

\* bug: the rules of the new text are added to the stored grammar
load_grammar_direct_Merge(ctx, grammar) ==
    LET r == parse_grammar(grammar)
    IN  IF r.ok
        THEN [ctx |-> [ctx EXCEPT !.grammar =
                          Some((IF @.some THEN @.val ELSE <<>>) \o r.val)],
              res |-> Ok("")]
        ELSE [ctx |-> ctx, res |-> Err(r.err)]

\* bug: breakpoints on rules the new grammar does not have are purged
load_grammar_direct_Purge(ctx, grammar) ==
    LET r == parse_grammar(grammar)
    IN  IF r.ok
        THEN [ctx |-> [ctx EXCEPT !.grammar = Some(r.val),
                                  !.breakpoints = @ \cap Range(r.val)],
              res |-> Ok("")]
        ELSE [ctx |-> ctx, res |-> Err(r.err)]

load_grammar_direct(ctx, grammar) ==
    LET r == parse_grammar(grammar)
    IN  IF r.ok
        THEN [ctx |-> [ctx EXCEPT !.grammar = Some(r.val)], res |-> Ok("")]
        ELSE [ctx |-> ctx, res |-> Err(r.err)]

load_input_direct(ctx, input) ==
    [ctx |-> [ctx EXCEPT !.input = Some(input)], res |-> Ok("")]

\* bug: a missing grammar is taken for a grammar without rules
add_all_rules_breakpoints_Default(ctx) ==
    IF ~ctx.grammar.some
    THEN [ctx |-> ctx, res |-> Ok("")]
    ELSE [ctx |-> [ctx EXCEPT !.breakpoints = @ \cup Range(ctx.grammar.val)],
          res |-> Ok("")]

\* bug: the loop over the rules ends after the first one
add_all_rules_breakpoints_Front(ctx) ==
    IF ~ctx.grammar.some
    THEN [ctx |-> ctx, res |-> Err(GrammarNotOpened)]
    ELSE [ctx |-> [ctx EXCEPT !.breakpoints = @ \cup {Head(ctx.grammar.val)}],
          res |-> Ok("")]

add_all_rules_breakpoints(ctx) ==
    IF ~ctx.grammar.some
    THEN [ctx |-> ctx, res |-> Err(GrammarNotOpened)]
    ELSE [ctx |-> [ctx EXCEPT !.breakpoints = @ \cup Range(ctx.grammar.val)],
          res |-> Ok("")]

add_breakpoint(ctx, rule) ==
    [ctx |-> [ctx EXCEPT !.breakpoints = @ \cup {rule}], res |-> Ok("")]

\* bug: removing a rule that is not in the set inserts it
delete_breakpoint_Toggle(ctx, rule) ==
    [ctx |-> [ctx EXCEPT !.breakpoints =
                 IF rule \in @ THEN @ \ {rule} ELSE @ \cup {rule}],
     res |-> Ok("")]

delete_breakpoint(ctx, rule) ==
    [ctx |-> [ctx EXCEPT !.breakpoints = @ \ {rule}], res |-> Ok("")]

delete_all_breakpoints(ctx) ==
    [ctx |-> [ctx EXCEPT !.breakpoints = {}], res |-> Ok("")]

\* bug: every rule entry is recorded, breakpoint or not
listener_NoFilter(breakpoints, events, entry) ==
    Append(events, Breakpoint(entry[1], entry[2]))

\* the listener closure of handle: push a Breakpoint when the rule is in the
\* cloned breakpoint set; it never asks the engine to stop
listener(breakpoints, events, entry) ==
    IF entry[1] \in breakpoints
    THEN Append(events, Breakpoint(entry[1], entry[2]))
    ELSE events

RECURSIVE collect(_, _, _)
\* the events vector after the engine has reported `entries`
collect(breakpoints, events, entries) ==
    IF entries = <<>>
    THEN events
    ELSE collect(breakpoints, listener(breakpoints, events, Head(entries)),
                 Tail(entries))

\* bug: a failed parse responds its Error and drops out before send_events
handle_ErrorFirst(ctx, ast, rule, input, vm) ==
    LET breakpoints == ctx.breakpoints
        events == collect(breakpoints, <<>>, vm.entries)
    IN  IF vm.ok
        THEN events \o <<Eof>>
        ELSE <<Error(ParseFailed)>> \o events

\* handle: the events responded for one parse
handle(ctx, ast, rule, input, vm) ==
    LET breakpoints == ctx.breakpoints
        events == collect(breakpoints, <<>>, vm.entries)
    IN  IF vm.ok
        THEN events \o <<Eof>>
        ELSE events \o <<Error(ParseFailed)>>

\* bug: the input is checked before the grammar
run_InputFirst(ctx, rule, vm) ==
    IF ~ctx.input.some
    THEN [ctx |-> ctx, res |-> Err(InputNotOpened), out |-> <<>>,
          invoked |-> FALSE]
    ELSE IF ctx.grammar.some
         THEN [ctx |-> ctx, res |-> Ok(""),
               out |-> handle(ctx, ctx.grammar.val, rule, ctx.input.val, vm),
               invoked |-> TRUE]
         ELSE [ctx |-> ctx, res |-> Err(GrammarNotOpened), out |-> <<>>,
               invoked |-> FALSE]

\* bug: a missing input is parsed as the empty input
run_EmptyInput(ctx, rule, vm) ==
    IF ~ctx.grammar.some
    THEN [ctx |-> ctx, res |-> Err(GrammarNotOpened), out |-> <<>>,
          invoked |-> FALSE]
    ELSE [ctx |-> ctx, res |-> Ok(""),
          out |-> handle(ctx, ctx.grammar.val, rule,
                         IF ctx.input.some THEN ctx.input.val ELSE "", vm),
          invoked |-> TRUE]

\* bug: the input is moved out of the context for the parse
run_TakeInput(ctx, rule, vm) ==
    IF ~ctx.grammar.some
    THEN [ctx |-> ctx, res |-> Err(GrammarNotOpened), out |-> <<>>,
          invoked |-> FALSE]
    ELSE IF ctx.input.some
         THEN [ctx |-> [ctx EXCEPT !.input = None], res |-> Ok(""),
               out |-> handle(ctx, ctx.grammar.val, rule, ctx.input.val, vm),
               invoked |-> TRUE]
         ELSE [ctx |-> ctx, res |-> Err(InputNotOpened), out |-> <<>>,
               invoked |-> FALSE]

\* run: the context it leaves (it takes &mut self), the Result it returns,
\* what it responded itself, whether it parsed
run(ctx, rule, vm) ==
    IF ~ctx.grammar.some
    THEN [ctx |-> ctx, res |-> Err(GrammarNotOpened), out |-> <<>>,
          invoked |-> FALSE]
    ELSE IF ctx.input.some
         THEN [ctx |-> ctx, res |-> Ok(""),
               out |-> handle(ctx, ctx.grammar.val, rule, ctx.input.val, vm),
               invoked |-> TRUE]
         ELSE [ctx |-> ctx, res |-> Err(InputNotOpened), out |-> <<>>,
               invoked |-> FALSE]

-----------------------------------------------------------------------------
(* Worker *)

\* bug: a command that has no reply of its own is acknowledged with an Eof
handle_input_Ack(ctx, msg, vm) ==
    LET r == CASE msg.type = "LoadGrammar" -> load_grammar_direct(ctx, msg.arg)
               [] msg.type = "LoadInput" -> load_input_direct(ctx, msg.arg)
               [] msg.type = "Run" ->
                    [ctx |-> run(ctx, msg.arg, vm).ctx,
                     res |-> run(ctx, msg.arg, vm).res]
               [] msg.type = "AddBreakpoint" -> add_breakpoint(ctx, msg.arg)
               [] msg.type = "DeleteBreakpoint" -> delete_breakpoint(ctx, msg.arg)
               [] msg.type = "DeleteAllBreakpoints" -> delete_all_breakpoints(ctx)
               [] msg.type = "AddAllRulesBreakpoints" ->
                    add_all_rules_breakpoints(ctx)
    IN  [ctx |-> r.ctx, res |-> r.res,
         invoked |-> msg.type = "Run" /\ run(ctx, msg.arg, vm).invoked,
         out |-> CASE msg.type = "LoadGrammar" ->
                        IF r.res.ok
                        THEN <<Rules(r.ctx.grammar.val)>>
                        ELSE <<Error(r.res.err)>>
                   [] msg.type = "Run" ->
                        IF r.res.ok
                        THEN run(ctx, msg.arg, vm).out
                        ELSE <<Error(r.res.err)>>
                   [] OTHER -> <<Eof>>]

\* handle_input: the context it leaves, the events it responds, the Result of
\* the context operation it called, whether the engine was invoked
handle_input(ctx, msg, vm) ==
    CASE msg.type = "LoadGrammar" ->
            LET r == load_grammar_direct(ctx, msg.arg)
            IN  [ctx |-> r.ctx, res |-> r.res, invoked |-> FALSE,
                 out |-> IF r.res.ok
                         THEN <<Rules(r.ctx.grammar.val)>>
                         ELSE <<Error(r.res.err)>>]
      [] msg.type = "LoadInput" ->
            LET r == load_input_direct(ctx, msg.arg)
            IN  [ctx |-> r.ctx, res |-> r.res, invoked |-> FALSE, out |-> <<>>]
      [] msg.type = "Run" ->
            LET r == run(ctx, msg.arg, vm)
            IN  [ctx |-> r.ctx, res |-> r.res, invoked |-> r.invoked,
                 out |-> IF r.res.ok THEN r.out ELSE <<Error(r.res.err)>>]
      [] msg.type = "AddBreakpoint" ->
            LET r == add_breakpoint(ctx, msg.arg)
            IN  [ctx |-> r.ctx, res |-> r.res, invoked |-> FALSE, out |-> <<>>]
      [] msg.type = "DeleteBreakpoint" ->
            LET r == delete_breakpoint(ctx, msg.arg)
            IN  [ctx |-> r.ctx, res |-> r.res, invoked |-> FALSE, out |-> <<>>]
      [] msg.type = "DeleteAllBreakpoints" ->
            LET r == delete_all_breakpoints(ctx)
            IN  [ctx |-> r.ctx, res |-> r.res, invoked |-> FALSE, out |-> <<>>]
      [] msg.type = "AddAllRulesBreakpoints" ->
            LET r == add_all_rules_breakpoints(ctx)
            IN  [ctx |-> r.ctx, res |-> r.res, invoked |-> FALSE, out |-> <<>>]

\* the engine outcomes a command can meet: a parse happens only for a Run
\* with grammar and input stored
VmChoices(ctx, msg, max, positions) ==
    IF msg.type = "Run" /\ ctx.grammar.some /\ ctx.input.some
    THEN VmOutcomes(ctx.grammar.val, max, positions)
    ELSE {NoVm}

NoCommand == [type |-> "None", arg |-> ""]

\* the worker takes the next command and handles it to completion.  Events are
\* delivered in the order responded and the worker sees nothing of the App
\* but its commands, so a command handled while earlier events are still in
\* flight shows the App nothing that handling it after their delivery does
\* not: the worker step waits for toApp to drain
Handling(vm) ==
    LET r == handle_input(debugger_context, Head(toWorker), vm)
    IN  /\ debugger_context' = r.ctx
        /\ toWorker' = Tail(toWorker)
        /\ toApp' = toApp \o r.out

\* the worker answering an arbitrary caller
HandleInput ==
    /\ toWorker # <<>>
    /\ toApp = <<>>
    /\ \E vm \in VmChoices(debugger_context, Head(toWorker),
                            MaxEntries, Positions) :
        LET msg == Head(toWorker)
            r == handle_input(debugger_context, msg, vm)
        IN  /\ Handling(vm)
            /\ handled' = [cmd |-> msg, pre |-> debugger_context,
                           res |-> r.res, out |-> r.out,
                           invoked |-> r.invoked,
                           entries |-> IF r.invoked THEN vm.entries ELSE <<>>,
                           parsed |-> r.invoked /\ vm.ok]
            /\ loads' = IF msg.type = "LoadGrammar"
                        THEN IF parse_and_optimize(msg.arg).ok
                             THEN [good |-> Some(parse_and_optimize(msg.arg).val),
                                   failed |-> FALSE]
                             ELSE [loads EXCEPT !.failed = TRUE]
                        ELSE loads
            /\ addedAll' =
                CASE msg.type = "AddAllRulesBreakpoints" -> r.res.ok
                  [] msg.type = "LoadGrammar" -> addedAll /\ ~r.res.ok
                  [] msg.type \in {"DeleteBreakpoint", "DeleteAllBreakpoints"}
                        -> FALSE
                  [] OTHER -> addedAll
    /\ UNCHANGED <<state, answer, continued, job>>

-----------------------------------------------------------------------------
(* AppState *)

DefaultState ==
    [grammar |-> DefaultGrammar,
     input |-> DefaultInput,
     breakpoints |-> [i \in 1..Len(DefaultRules) |-> <<FALSE, DefaultRules[i]>>],
     events |-> <<>>,
     to_run |-> "ident_list",
     running |-> FALSE,
     error |-> None]

NothingHandled ==
    [cmd |-> NoCommand, pre |-> DefaultContext, res |-> Ok(""), out |-> <<>>,
     invoked |-> FALSE, entries |-> <<>>, parsed |-> FALSE]

-----------------------------------------------------------------------------
(* The worker driven by an arbitrary caller *)

InitWorker ==
    /\ debugger_context = DefaultContext
    /\ toWorker = <<>>
    /\ toApp = <<>>
    /\ state = DefaultState
    /\ handled = NothingHandled
    /\ loads = [good |-> None, failed |-> FALSE]
    /\ answer = None
    /\ continued = None
    /\ addedAll = FALSE
    /\ job = None

\* a caller sends any command, once the previous one is handled and answered
\* (the worker handles one command at a time, in the order sent)
CallerSend ==
    /\ toWorker = <<>>
    /\ toApp = <<>>
    /\ \E msg \in WorkerInput : toWorker' = Append(toWorker, msg)
    /\ handled' = NothingHandled
    /\ UNCHANGED <<debugger_context, toApp, state, loads, answer, continued,
                   addedAll, job>>

\* the caller's callback receives the next event
CallerReceive ==
    /\ toApp # <<>>
    /\ toApp' = Tail(toApp)
    /\ UNCHANGED <<debugger_context, toWorker, state, handled, loads, answer,
                   continued, addedAll, job>>

NextWorker == CallerSend \/ HandleInput \/ CallerReceive

SpecWorker == InitWorker /\ [][NextWorker]_vars

-----------------------------------------------------------------------------
(* The worker followed step by step through DebuggerContext::handle, with
   commands sent to it while it works *)

\* bug: the worker takes a command while a handle_input call is in progress
WorkerFree_Reentrant == TRUE

\* handle_input runs to completion on the worker's one thread: the next
\* command is taken when no call is in progress
WorkerFree == ~job.some

\* Run with grammar and input stored: the command that reaches handle
Parses(ctx, msg) == msg.type = "Run" /\ ctx.grammar.some /\ ctx.input.some

\* a bridge sends any command, whatever the worker is doing
BridgeSend ==
    /\ Len(toWorker) < MaxPending
    /\ \E msg \in WorkerInput : toWorker' = Append(toWorker, msg)
    /\ handled' = NothingHandled
    /\ UNCHANGED <<debugger_context, toApp, state, loads, answer, continued,
                   addedAll, job>>

\* handle_input for a command that does not reach handle.  What is responded
\* while a call of handle is in progress is recorded with that call
TakeCommand ==
    /\ WorkerFree
    /\ toWorker # <<>>
    /\ toApp = <<>>
    /\ ~Parses(debugger_context, Head(toWorker))
    /\ LET msg == Head(toWorker)
           r == handle_input(debugger_context, msg, NoVm)
       IN  /\ Handling(NoVm)
           /\ handled' = [cmd |-> msg, pre |-> debugger_context,
                          res |-> r.res, out |-> r.out, invoked |-> FALSE,
                          entries |-> <<>>, parsed |-> FALSE]
           /\ job' = IF job.some
                     THEN Some([job.val EXCEPT !.responded = @ \o r.out])
                     ELSE job
    /\ UNCHANGED <<state, loads, answer, continued, addedAll>>

\* run and the head of handle: grammar, input and breakpoint set are cloned,
\* the events vector is created, and the engine starts on the clones (what it
\* will report is fixed by them)
RunBegin ==
    /\ WorkerFree
    /\ toWorker # <<>>
    /\ toApp = <<>>
    /\ Parses(debugger_context, Head(toWorker))
    /\ \E vm \in VmChoices(debugger_context, Head(toWorker),
                            MaxAppEntries, AppPositions) :
        job' = Some([cmd |-> Head(toWorker),
                     pre |-> debugger_context,
                     breakpoints |-> debugger_context.breakpoints,
                     entries |-> vm.entries,
                     ok |-> vm.ok,
                     reported |-> 0,
                     events |-> <<>>,
                     sent |-> 0,
                     responded |-> <<>>])
    /\ toWorker' = Tail(toWorker)
    /\ UNCHANGED <<debugger_context, toApp, state, handled, loads, answer,
                   continued, addedAll>>

\* the engine enters a rule and calls the listener
Listen ==
    /\ job.some
    /\ job.val.reported < Len(job.val.entries)
    /\ job' = Some([job.val EXCEPT
            !.reported = @ + 1,
            !.events = listener(job.val.breakpoints, @,
                                job.val.entries[job.val.reported + 1])])
    /\ UNCHANGED <<debugger_context, toWorker, toApp, state, handled, loads,
                   answer, continued, addedAll>>

\* send_events, after the parse: one respond for each event of the vector
SendEvent ==
    /\ job.some
    /\ job.val.reported = Len(job.val.entries)
    /\ job.val.sent < Len(job.val.events)
    /\ LET event == job.val.events[job.val.sent + 1]
       IN  /\ toApp' = Append(toApp, event)
           /\ job' = Some([job.val EXCEPT !.sent = @ + 1,
                                          !.responded = Append(@, event)])
    /\ UNCHANGED <<debugger_context, toWorker, state, handled, loads, answer,
                   continued, addedAll>>

\* the Eof or Error of the parse is responded and handle_input returns
RunEnd ==
    /\ job.some
    /\ job.val.reported = Len(job.val.entries)
    /\ job.val.sent = Len(job.val.events)
    /\ LET last == IF job.val.ok THEN Eof ELSE Error(ParseFailed)
       IN  /\ toApp' = Append(toApp, last)
           /\ handled' = [cmd |-> job.val.cmd, pre |-> job.val.pre,
                          res |-> Ok(""),
                          out |-> Append(job.val.responded, last),
                          invoked |-> TRUE, entries |-> job.val.entries,
                          parsed |-> job.val.ok]
    /\ job' = None
    /\ UNCHANGED <<debugger_context, toWorker, state, loads, answer, continued,
                   addedAll>>

NextSteps ==
    \/ BridgeSend
    \/ TakeCommand
    \/ RunBegin
    \/ Listen
    \/ SendEvent
    \/ RunEnd
    \/ CallerReceive

SpecSteps == InitWorker /\ [][NextSteps]_vars

-----------------------------------------------------------------------------
(* App::update: each message yields the AppState it leaves and the commands
   it sends to the worker *)

\* Message::GrammarChange, with the textarea holding `text`
update_GrammarChange(s, text) ==
    [state |-> [s EXCEPT !.grammar = text], send |-> <<LoadGrammar(text)>>]

\* Message::InputChange, with the textarea holding `text`
update_InputChange(s, text) ==
    [state |-> [s EXCEPT !.input = text], send |-> <<LoadInput(text)>>]

\* Message::SelectRuleToRun, with option `index` selected
update_SelectRuleToRun(s, index) ==
    [state |-> [s EXCEPT !.to_run = s.breakpoints[index][2]], send |-> <<>>]

\* Message::ChangeBreakpoint, from the checkbox named `rule`, now `checked`
update_ChangeBreakpoint(s, rule, checked) ==
    LET found == {i \in 1..Len(s.breakpoints) : s.breakpoints[i][2] = rule}
        index == CHOOSE i \in found : \A j \in found : i <= j
    IN  [state |-> IF found # {}
                   THEN [s EXCEPT !.breakpoints[index][1] = checked]
                   ELSE s,
         send |-> IF checked
                  THEN <<AddBreakpoint(rule)>>
                  ELSE <<DeleteBreakpoint(rule)>>]

\* Message::AddAllBreakpoints
update_AddAllBreakpoints(s) ==
    [state |-> [s EXCEPT !.breakpoints =
                    [i \in 1..Len(s.breakpoints) |-> <<TRUE, s.breakpoints[i][2]>>]],
     send |-> <<AddAllRulesBreakpoints>>]

\* Message::RemoveAllBreakpoints
update_RemoveAllBreakpoints(s) ==
    [state |-> [s EXCEPT !.breakpoints =
                    [i \in 1..Len(s.breakpoints) |-> <<FALSE, s.breakpoints[i][2]>>]],
     send |-> <<DeleteAllBreakpoints>>]

\* Message::Run: with an error recorded only the error dialog is shown
update_Run(s) ==
    IF ~s.error.some
    THEN [state |-> [s EXCEPT !.running = TRUE], send |-> <<Run(s.to_run)>>]
    ELSE [state |-> s, send |-> <<>>]

\* bug: a Rules event starts the session afresh
update_WorkerMsg_Reset(s, msg) ==
    CASE msg.type = "Rules" ->
            [state |-> [s EXCEPT
                !.breakpoints = [i \in 1..Len(msg.rules) |-> <<FALSE, msg.rules[i]>>],
                !.error = None,
                !.events = <<>>,
                !.running = FALSE],
             send |-> <<>>]
      [] msg.type = "Error" ->
            [state |-> [s EXCEPT !.error = Some(msg.msg)], send |-> <<>>]
      [] OTHER ->
            [state |-> [s EXCEPT !.events = Append(@, msg)], send |-> <<>>]

\* bug: an Error is shown in the dialog and queued as an event as well
update_WorkerMsg_PushAll(s, msg) ==
    CASE msg.type = "Rules" ->
            [state |-> [s EXCEPT
                !.breakpoints = [i \in 1..Len(msg.rules) |-> <<FALSE, msg.rules[i]>>],
                !.error = None],
             send |-> <<>>]
      [] msg.type = "Error" ->
            [state |-> [s EXCEPT !.error = Some(msg.msg),
                                 !.events = Append(@, msg)],
             send |-> <<>>]
      [] OTHER ->
            [state |-> [s EXCEPT !.events = Append(@, msg)], send |-> <<>>]

\* Message::WorkerMsg
update_WorkerMsg(s, msg) ==
    CASE msg.type = "Rules" ->
            [state |-> [s EXCEPT
                !.breakpoints = [i \in 1..Len(msg.rules) |-> <<FALSE, msg.rules[i]>>],
                !.error = None],
             send |-> <<>>]
      [] msg.type = "Error" ->
            [state |-> [s EXCEPT !.error = Some(msg.msg)], send |-> <<>>]
      [] OTHER ->
            [state |-> [s EXCEPT !.events = Append(@, msg)], send |-> <<>>]

\* VecDeque::pop_front
pop_front(q) == IF q = <<>> THEN q ELSE Tail(q)

\* bug: the queue is not checked before the first pop_front
update_Continue_NoGuard(s) ==
    LET popped == pop_front(s.events)
    IN  IF popped = <<>> \/ Head(popped).type = "Eof"
        THEN [state |-> [s EXCEPT !.events = pop_front(popped),
                                  !.running = FALSE],
              send |-> <<>>]
        ELSE [state |-> [s EXCEPT !.events = popped], send |-> <<>>]

\* Message::Continue
update_Continue(s) ==
    IF s.events # <<>>
    THEN LET popped == pop_front(s.events)
         IN  IF popped = <<>> \/ Head(popped).type = "Eof"
             THEN [state |-> [s EXCEPT !.events = pop_front(popped),
                                       !.running = FALSE],
                   send |-> <<>>]
             ELSE [state |-> [s EXCEPT !.events = popped], send |-> <<>>]
    ELSE [state |-> s, send |-> <<>>]

\* bug: the queue is kept for the next session
update_Stop_KeepQueue(s) ==
    [state |-> [s EXCEPT !.running = FALSE], send |-> <<>>]

\* Message::Stop
update_Stop(s) ==
    [state |-> [s EXCEPT !.running = FALSE, !.events = <<>>], send |-> <<>>]

-----------------------------------------------------------------------------
(* The App and its worker *)

\* bug: create sends the default grammar and not the default input
Init_NoLoadInput ==
    /\ debugger_context = DefaultContext
    /\ state = DefaultState
    /\ toWorker = <<LoadGrammar(DefaultState.grammar)>>
    /\ toApp = <<>>
    /\ handled = NothingHandled
    /\ loads = [good |-> None, failed |-> FALSE]
    /\ answer = None
    /\ continued = None
    /\ addedAll = FALSE
    /\ job = None

\* App::create
Init ==
    /\ debugger_context = DefaultContext
    /\ state = DefaultState
    /\ toWorker = <<LoadGrammar(DefaultState.grammar), LoadInput(DefaultState.input)>>
    /\ toApp = <<>>
    /\ handled = NothingHandled
    /\ loads = [good |-> None, failed |-> FALSE]
    /\ answer = None
    /\ continued = None
    /\ addedAll = FALSE
    /\ job = None

\* one call of App::update for a message of the user.  A message that sends
\* a command comes once the worker has taken the commands sent before
Update(r) ==
    /\ r.send = <<>> \/ toWorker = <<>>
    /\ state' = r.state
    /\ toWorker' = toWorker \o r.send
    /\ UNCHANGED <<debugger_context, toApp, handled, loads, addedAll, job>>

\* the grammar textarea is read-only while running
GrammarChange ==
    /\ ~state.running
    /\ \E text \in GrammarTexts : Update(update_GrammarChange(state, text))
    /\ continued' = None
    /\ UNCHANGED answer

\* the input textarea is shown only while not running
InputChange ==
    /\ ~state.running
    /\ \E text \in InputTexts : Update(update_InputChange(state, text))
    /\ continued' = None
    /\ UNCHANGED answer

\* the options of the rule selector are disabled while running
SelectRuleToRun ==
    /\ ~state.running
    /\ \E index \in 1..Len(state.breakpoints) :
        Update(update_SelectRuleToRun(state, index))
    /\ continued' = None
    /\ UNCHANGED answer

\* the checkboxes are disabled while running; a change event toggles one
ChangeBreakpoint ==
    /\ ~state.running
    /\ \E i \in 1..Len(state.breakpoints) :
        Update(update_ChangeBreakpoint(state, state.breakpoints[i][2],
                                       ~state.breakpoints[i][1]))
    /\ continued' = None
    /\ UNCHANGED answer

\* the button has its callback only while not running
AddAllBreakpoints ==
    /\ ~state.running
    /\ Update(update_AddAllBreakpoints(state))
    /\ continued' = None
    /\ UNCHANGED answer

\* the button has its callback only while not running
RemoveAllBreakpoints ==
    /\ ~state.running
    /\ Update(update_RemoveAllBreakpoints(state))
    /\ continued' = None
    /\ UNCHANGED answer

\* the Run button has its callback only while not running
MessageRun ==
    /\ ~state.running
    /\ Update(update_Run(state))
    /\ answer' = IF update_Run(state).send # <<>> THEN None ELSE answer
    /\ continued' = None

\* the Continue button has its callback only while running
MessageContinue ==
    /\ state.running
    /\ Update(update_Continue(state))
    /\ continued' = Some(state.events)
    /\ UNCHANGED answer

\* the Stop button has its callback only while running
MessageStop ==
    /\ state.running
    /\ Update(update_Stop(state))
    /\ continued' = None
    /\ UNCHANGED answer

IsRun(msg) == msg.type = "Run"

\* the worker handles the App's next command
WorkerTurn ==
    /\ toWorker # <<>>
    /\ toApp = <<>>
    /\ \E vm \in VmChoices(debugger_context, Head(toWorker),
                            MaxAppEntries, AppPositions) :
        /\ Handling(vm)
        /\ answer' =
            IF IsRun(Head(toWorker)) /\ SelectSeq(Tail(toWorker), IsRun) = <<>>
            THEN Some([n |-> Len(handle_input(debugger_context,
                                                  Head(toWorker), vm).out),
                       delivered |-> 0])
            ELSE answer
    /\ UNCHANGED <<state, handled, loads, continued, addedAll, job>>

\* the bridge callback hands the next event to App::update
WorkerMsg ==
    /\ toApp # <<>>
    /\ LET r == update_WorkerMsg(state, Head(toApp))
       IN  /\ Len(r.state.events) <= MaxEvents
           /\ state' = r.state
    /\ toApp' = Tail(toApp)
    /\ answer' = IF answer.some /\ answer.val.delivered < answer.val.n
                 THEN Some([answer.val EXCEPT !.delivered = @ + 1])
                 ELSE answer
    /\ continued' = None
    /\ UNCHANGED <<debugger_context, toWorker, handled, loads, addedAll, job>>

Next ==
    \/ GrammarChange
    \/ InputChange
    \/ SelectRuleToRun
    \/ ChangeBreakpoint
    \/ AddAllBreakpoints
    \/ RemoveAllBreakpoints
    \/ MessageRun
    \/ MessageContinue
    \/ MessageStop
    \/ WorkerTurn
    \/ WorkerMsg

Spec == Init /\ [][Next]_vars

-----------------------------------------------------------------------------
(* The App sending while commands sent before, those of App::create
   included, still wait for the worker *)

\* one call of App::update for a message of the user, whatever waits
Queued(r) ==
    /\ Len(toWorker) + Len(r.send) <= MaxQueued
    /\ state' = r.state
    /\ toWorker' = toWorker \o r.send
    /\ UNCHANGED <<debugger_context, toApp, handled, loads, addedAll, job>>

QueuedGrammarChange ==
    /\ ~state.running
    /\ \E text \in GrammarTexts : Queued(update_GrammarChange(state, text))
    /\ continued' = None
    /\ UNCHANGED answer

QueuedInputChange ==
    /\ ~state.running
    /\ \E text \in InputTexts : Queued(update_InputChange(state, text))
    /\ continued' = None
    /\ UNCHANGED answer

QueuedRun ==
    /\ ~state.running
    /\ Queued(update_Run(state))
    /\ answer' = IF update_Run(state).send # <<>> THEN None ELSE answer
    /\ continued' = None

\* the messages that send a load or a Run, and those that end a session.
\* The breakpoint messages and the rule selection are left out: the commands
\* they send store and remove no grammar and no input
NextQueued ==
    \/ QueuedGrammarChange
    \/ QueuedInputChange
    \/ QueuedRun
    \/ MessageContinue
    \/ MessageStop
    \/ WorkerTurn
    \/ WorkerMsg

SpecQueued == Init /\ [][NextQueued]_vars

-----------------------------------------------------------------------------
(* Properties of the worker *)

IsTerminal(e) == e.type \in {"Eof", "Error"}

IsBreakpoint(e) == e.type = "Breakpoint"

\* zero or more Breakpoint events, then one terminal event, then nothing
RunShape(out) ==
    /\ Len(out) >= 1
    /\ IsTerminal(out[Len(out)])
    /\ \A i \in 1..(Len(out) - 1) : IsBreakpoint(out[i])

\* the entries of rules in S, as Breakpoint events, in entry order
Hits(entries, S) ==
    LET InS(en) == en[1] \in S
        sub == SelectSeq(entries, InS)
    IN  [i \in 1..Len(sub) |-> Breakpoint(sub[i][1], sub[i][2])]

\* C1: the events responded to a Run, whatever is loaded and however the parse
\* ends, are zero or more Breakpoint events followed by exactly one terminal
\* event (Eof or Error), with nothing after it.
C1_RunEndsWithOneTerminal ==
    handled.cmd.type = "Run" => RunShape(handled.out)

\* a Run whose parse failed after a breakpoint was hit
C1_Witness ==
    /\ handled.cmd.type = "Run"
    /\ handled.invoked
    /\ ~handled.parsed
    /\ Len(handled.out) >= 2

\* C2: the Breakpoint events of a run are exactly the rule entries the engine
\* reported whose rule is in the breakpoint set, in the same order and with
\* the position of the entry; other entries produce no event.
C2_BreakpointsAreTheHits ==
    handled.invoked =>
        SelectSeq(handled.out, IsBreakpoint)
            = Hits(handled.entries, handled.pre.breakpoints)

\* a run that entered a rule with a breakpoint and a rule without one
C2_Witness ==
    /\ handled.invoked
    /\ \E i, j \in 1..Len(handled.entries) :
        /\ handled.entries[i][1] \in handled.pre.breakpoints
        /\ handled.entries[j][1] \notin handled.pre.breakpoints

\* C3: a LoadGrammar that fails to compile leaves the stored grammar as it was
\* (the last one that compiled, or none), and a Run that follows executes
\* against it instead of failing with GrammarNotOpened.
C3_FailedLoadKeepsGrammar ==
    /\ debugger_context.grammar = loads.good
    /\ (handled.cmd.type = "LoadGrammar" /\ ~handled.res.ok)
        => debugger_context.grammar = handled.pre.grammar
    /\ (handled.cmd.type = "Run" /\ loads.good.some)
        => /\ handled.out # <<Error(GrammarNotOpened)>>
           /\ handled.pre.input.some => handled.invoked

\* a Run executed after a load that compiled and a later one that did not
C3_Witness ==
    /\ handled.cmd.type = "Run"
    /\ loads.good.some
    /\ loads.failed
    /\ handled.invoked

\* C4: a Run handled while no grammar is stored, with or without an input,
\* does not invoke the engine and responds exactly one event, the Error
\* carrying the grammar-not-loaded message.
C4_RunWithoutGrammar ==
    (handled.cmd.type = "Run" /\ ~handled.pre.grammar.some)
        => /\ ~handled.invoked
           /\ handled.res = Err(GrammarNotOpened)
           /\ handled.out = <<Error(GrammarNotOpened)>>

\* a Run handled with an input stored and no grammar
C4_Witness ==
    /\ handled.cmd.type = "Run"
    /\ ~handled.pre.grammar.some
    /\ handled.pre.input.some
    /\ handled.out = <<Error(GrammarNotOpened)>>

\* C5: a Run handled while a grammar is stored and no input is does not invoke
\* the engine and responds exactly one event, the Error carrying the
\* input-not-loaded message.
C5_RunWithoutInput ==
    (handled.cmd.type = "Run" /\ handled.pre.grammar.some
        /\ ~handled.pre.input.some)
        => /\ ~handled.invoked
           /\ handled.res = Err(InputNotOpened)
           /\ handled.out = <<Error(InputNotOpened)>>

\* a Run handled with a grammar stored and no input
C5_Witness ==
    /\ handled.cmd.type = "Run"
    /\ handled.pre.grammar.some
    /\ ~handled.pre.input.some
    /\ handled.out = <<Error(InputNotOpened)>>

\* C6: add_all_rules_breakpoints called while no grammar is stored returns the
\* GrammarNotOpened error and leaves the breakpoint set as it was.
C6_AddAllWithoutGrammar ==
    (handled.cmd.type = "AddAllRulesBreakpoints" /\ ~handled.pre.grammar.some)
        => /\ handled.res = Err(GrammarNotOpened)
           /\ debugger_context.breakpoints = handled.pre.breakpoints

\* add_all_rules_breakpoints refused with breakpoints already set
C6_Witness ==
    /\ handled.cmd.type = "AddAllRulesBreakpoints"
    /\ ~handled.pre.grammar.some
    /\ handled.pre.breakpoints # {}
    /\ debugger_context.breakpoints = handled.pre.breakpoints

\* the operation of the handled command failed
OperationFailed ==
    \/ ~handled.res.ok
    \/ handled.invoked /\ ~handled.parsed

\* C7: every command whose operation fails (a compile failure, a Run without
\* grammar or input, a parse failure, AddAllRulesBreakpoints without grammar)
\* is answered with an Error event.
C7_NoSilentFailure ==
    (handled.cmd.type # "None" /\ OperationFailed)
        => \E i \in 1..Len(handled.out) : handled.out[i].type = "Error"

\* C13: a LoadGrammar whose text compiles stores the compiled grammar in place
\* of the one stored before and is answered with exactly one event, the Rules
\* listing the rule names of the stored grammar in grammar order; one whose
\* text does not compile is answered with exactly one event, an Error.
C13_LoadGrammarReply ==
    handled.cmd.type = "LoadGrammar" =>
        LET r == parse_and_optimize(handled.cmd.arg)
        IN  IF r.ok
            THEN /\ debugger_context.grammar = Some(r.val)
                 /\ handled.out = <<Rules(r.val)>>
            ELSE /\ Len(handled.out) = 1
                 /\ handled.out[1].type = "Error"

\* a grammar that compiles is loaded over a stored grammar with other rules
C13_Witness ==
    /\ handled.cmd = LoadGrammar(IdentGrammar)
    /\ handled.pre.grammar = Some(DefaultRules)
    /\ handled.out = <<Rules(<<"ident">>)>>

\* the rule names among the entries of a run
Entered(entries) == {entries[i][1] : i \in 1..Len(entries)}

\* C14: a successful add_all_rules_breakpoints leaves the previous breakpoint
\* set united with every rule name of the stored grammar, and a run that
\* follows responds a Breakpoint for every rule entry of the parse, hence at
\* least as many Breakpoint events as distinct rule names entered.
C14_AddAllThenRun ==
    /\ (handled.cmd.type = "AddAllRulesBreakpoints" /\ handled.res.ok)
        => debugger_context.breakpoints
            = handled.pre.breakpoints \cup Range(handled.pre.grammar.val)
    /\ (handled.invoked /\ addedAll)
        => /\ SelectSeq(handled.out, IsBreakpoint)
                = [i \in 1..Len(handled.entries) |->
                    Breakpoint(handled.entries[i][1], handled.entries[i][2])]
           /\ Len(SelectSeq(handled.out, IsBreakpoint))
                >= Cardinality(Entered(handled.entries))

\* a run after add_all_rules_breakpoints that entered every rule of the grammar
C14_Witness ==
    /\ handled.invoked
    /\ addedAll
    /\ Entered(handled.entries) = Range(handled.pre.grammar.val)
    /\ Cardinality(Entered(handled.entries)) = 2

\* C15: AddBreakpoint, DeleteBreakpoint and DeleteAllBreakpoints succeed
\* whatever the set and the name, and the same command handled once more
\* succeeds and leaves the breakpoint set (and the rest of the context) as the
\* first left it.
C15_BreakpointOpsIdempotent ==
    handled.cmd.type
        \in {"AddBreakpoint", "DeleteBreakpoint", "DeleteAllBreakpoints"}
    => LET again == handle_input(debugger_context, handled.cmd, NoVm)
       IN  /\ handled.res.ok
           /\ again.res.ok
           /\ again.ctx = debugger_context

\* a rule that is not in the set is removed, with no grammar stored
C15_Witness ==
    /\ handled.cmd.type = "DeleteBreakpoint"
    /\ handled.cmd.arg \notin handled.pre.breakpoints
    /\ handled.pre.breakpoints # {}
    /\ ~handled.pre.grammar.some
    /\ debugger_context.breakpoints = handled.pre.breakpoints

\* C16: a command other than Run never invokes the engine; LoadInput and the
\* four breakpoint commands respond no Breakpoint and no Eof, LoadGrammar
\* responds its one Rules or Error and nothing else.
C16_OnlyRunParses ==
    handled.cmd.type \notin {"Run", "None"} =>
        /\ ~handled.invoked
        /\ \A i \in 1..Len(handled.out) :
                handled.out[i].type \notin {"Breakpoint", "Eof"}
        /\ handled.cmd.type = "LoadGrammar" =>
                /\ Len(handled.out) = 1
                /\ handled.out[1].type \in {"Rules", "Error"}

\* add_all_rules_breakpoints with grammar and input stored: all is there for
\* a parse, and none happens
C16_Witness ==
    /\ handled.cmd.type = "AddAllRulesBreakpoints"
    /\ handled.pre.grammar.some
    /\ handled.pre.input.some
    /\ handled.out = <<>>
    /\ toApp = <<>>

\* C17: a LoadGrammar, compiling or not, leaves the breakpoint set and the
\* stored input as they were; names that are no rule of the new grammar stay
\* in the set.
C17_LoadGrammarFrame ==
    handled.cmd.type = "LoadGrammar" =>
        /\ debugger_context.breakpoints = handled.pre.breakpoints
        /\ debugger_context.input = handled.pre.input

\* a grammar without ident_list is stored while ident_list is a breakpoint
C17_Witness ==
    /\ handled.cmd = LoadGrammar(IdentGrammar)
    /\ handled.pre.input.some
    /\ "ident_list" \in debugger_context.breakpoints
    /\ debugger_context.grammar = Some(<<"ident">>)

\* C18: a Run, whether it parses to Eof, fails in the parse or is refused for
\* a missing grammar or input, leaves grammar, input and breakpoint set as
\* they were.
C18_RunFrame ==
    handled.cmd.type = "Run" => debugger_context = handled.pre

\* a Run whose parse failed, with breakpoints set
C18_Witness ==
    /\ handled.cmd.type = "Run"
    /\ handled.invoked
    /\ ~handled.parsed
    /\ handled.pre.breakpoints # {}
    /\ debugger_context = handled.pre

\* C20: no command is handled while a run is in progress, so the context is
\* not changed under the run and nothing but the run's own events is responded
\* from its start to its end; the events responded for a Run are those of the
\* grammar, input and breakpoint set stored when the Run was taken, whatever
\* was sent after it.
C20_RunIsNotInterleaved ==
    /\ job.some =>
        /\ debugger_context = job.val.pre
        /\ job.val.responded = SubSeq(job.val.events, 1, job.val.sent)
    /\ handled.invoked =>
        handled.out = handle(handled.pre, handled.pre.grammar.val,
                             handled.cmd.arg, handled.pre.input.val,
                             [entries |-> handled.entries,
                              ok |-> handled.parsed])

\* a run has responded its Breakpoint and its terminal event while a command
\* that removes the breakpoints, sent after the Run, waits for the worker
C20_Witness ==
    /\ handled.invoked
    /\ Len(handled.out) >= 2
    /\ toWorker # <<>>
    /\ Head(toWorker) = DeleteAllBreakpoints
    /\ ~job.some

-----------------------------------------------------------------------------
(* Properties of the stepping session *)

\* every event responded to the App's latest Run has been delivered
RunDelivered == answer.some /\ answer.val.delivered = answer.val.n

RECURSIVE IdleWithin(_, _)
\* n Continue messages, or fewer, take the session s to Idle
IdleWithin(s, n) ==
    IF ~s.running
    THEN TRUE
    ELSE IF n = 0
         THEN FALSE
         ELSE IdleWithin(update_Continue(s).state, n - 1)

\* C8: once the events of a Run are delivered, repeated Continue requests take
\* the session to Idle in finitely many steps (one per queued event, and one),
\* whatever the outcome of the run.
C8_ContinueReachesIdle ==
    (state.running /\ RunDelivered)
        => IdleWithin(state, Len(state.events) + 1)

\* C9: when the first event responded to a Run is its terminal event (no
\* breakpoint was hit), the session is Idle once that event is delivered, with
\* no Continue or Stop.
C9_IdleAfterTerminalFirst ==
    (answer.some /\ answer.val.n = 1 /\ answer.val.delivered = 1)
        => ~state.running

\* what the queue and the running flag are after a Continue that found the
\* queue `before`, when an emptied queue or a terminal front ends the session
\* with an empty queue
ContinuedAsClaimed(before) ==
    LET rest == pop_front(before)
    IN  IF rest = <<>> \/ IsTerminal(Head(rest))
        THEN state.events = <<>> /\ ~state.running
        ELSE state.events = rest /\ state.running /\ IsBreakpoint(Head(rest))

C11_StopLeavesIdle ==
    LET r == update_Stop(state)
    IN  /\ ~r.state.running
        /\ r.state.events = <<>>
        /\ r.send = <<>>

\* Stop is requested with a Breakpoint and the Eof behind it still queued
C11_Witness ==
    /\ state.running
    /\ Len(state.events) >= 2
    /\ IsBreakpoint(state.events[1])
    /\ ENABLED MessageStop
    /\ update_Stop(state).state.events = <<>>

\* C12: at the moment a Run command is sent the App's event queue is empty,
\* so that the queue of the run holds only events produced by that run.
C12_RunStartsWithEmptyQueue ==
    [][(MessageRun /\ toWorker' # toWorker) => state.events = <<>>]_vars

\* the events App::update can get in answer to a load
LoadReplies ==
    {Rules(DefaultRules), Rules(<<"ident">>), Error(ErrorParsing)}

\* the message leaves the queue and the running flag of the state alone
KeepsSession(r) ==
    /\ r.state.events = state.events
    /\ r.state.running = state.running

\* C19: while the session is Running, a changed grammar, a changed input and
\* the delivery of the Rules or Error that answers a load leave the event
\* queue and the running flag as they are.
C19_LoadKeepsSession ==
    state.running =>
        /\ \A text \in GrammarTexts :
                KeepsSession(update_GrammarChange(state, text))
        /\ \A text \in InputTexts :
                KeepsSession(update_InputChange(state, text))
        /\ \A msg \in LoadReplies : KeepsSession(update_WorkerMsg(state, msg))
        /\ (toApp # <<>> /\ ~IsBreakpoint(Head(toApp)) /\ Head(toApp) # Eof)
                => KeepsSession(update_WorkerMsg(state, Head(toApp)))

\* the Rules of a load is about to be delivered to a Running session with
\* events in its queue
C19_Witness ==
    /\ state.running
    /\ state.events # <<>>
    /\ toApp # <<>>
    /\ Head(toApp).type = "Rules"
    /\ ENABLED WorkerMsg

-----------------------------------------------------------------------------
(* Properties of the App's view of the worker *)

\* the rule names ticked in the breakpoint list
Ticked(s) ==
    {s.breakpoints[i][2] : i \in {j \in 1..Len(s.breakpoints) : s.breakpoints[j][1]}}

\* the rule names shown in the breakpoint list and in the rule selector
Shown(s) == {s.breakpoints[i][2] : i \in 1..Len(s.breakpoints)}

\* C21: whenever no command and no event is in flight between the App and the
\* worker, the rule names ticked in the App's breakpoint list are the worker's
\* breakpoint set.
C21_TicksAreWorkerBreakpoints ==
    (toWorker = <<>> /\ toApp = <<>>)
        => Ticked(state) = debugger_context.breakpoints

\* the errors a Run can be answered with
RunErrors == {ParseFailed, GrammarNotOpened, InputNotOpened}

\* C22: once the session is Idle again after a run that ended in an Error, a
\* Run request is forwarded to the worker and sets running = true, with no
\* grammar reload in between.
C22_RunAfterFailedRun ==
    (~state.running /\ state.error.some /\ state.error.val \in RunErrors)
        => LET r == update_Run(state)
           IN  /\ r.send = <<Run(state.to_run)>>
               /\ r.state.running

\* C23: the App's event queue holds Breakpoint and Eof events only; an Error
\* from the worker goes to the error field and a Rules to the breakpoint list
\* (every rule unticked), and neither changes the queue.
C23_QueueHoldsBreakpointsAndEof ==
    /\ \A i \in 1..Len(state.events) :
            state.events[i].type \in {"Breakpoint", "Eof"}
    /\ toApp # <<>> =>
        LET msg == Head(toApp)
            r == update_WorkerMsg(state, msg)
        IN  /\ msg.type = "Error" =>
                /\ r.state.error = Some(msg.msg)
                /\ r.state.events = state.events
            /\ msg.type = "Rules" =>
                /\ r.state.breakpoints
                    = [i \in 1..Len(msg.rules) |-> <<FALSE, msg.rules[i]>>]
                /\ r.state.events = state.events

\* the Breakpoint of a run is queued and the Error that ended the run is in
\* the error field
C23_Witness ==
    /\ answer.some
    /\ answer.val.n = 2
    /\ answer.val.delivered = 2
    /\ state.events # <<>>
    /\ IsBreakpoint(state.events[Len(state.events)])
    /\ state.error = Some(ParseFailed)

RECURSIVE After(_, _)
\* the context the worker holds once it has handled cmds, in order
After(ctx, cmds) ==
    IF cmds = <<>>
    THEN ctx
    ELSE After(handle_input(ctx, Head(cmds), NoVm).ctx, Tail(cmds))

\* C24: every Run the App has sent finds a grammar and an input stored when
\* the worker comes to handle it, the commands sent before it being handled
\* first; so no Run of the App is answered with the grammar-not-loaded or
\* the input-not-loaded error.
C24_RunFindsGrammarAndInput ==
    /\ \A i \in 1..Len(toWorker) :
            toWorker[i].type = "Run" =>
                LET ctx == After(debugger_context, SubSeq(toWorker, 1, i - 1))
                IN  ctx.grammar.some /\ ctx.input.some
    /\ \A i \in 1..Len(toApp) :
            toApp[i] \notin {Error(GrammarNotOpened), Error(InputNotOpened)}
    /\ state.error \notin {Some(GrammarNotOpened), Some(InputNotOpened)}

\* a Run was sent before the worker handled the LoadInput of App::create
C24_Witness ==
    /\ Len(toWorker) = 2
    /\ toWorker[1] = LoadInput(DefaultInput)
    /\ toWorker[2].type = "Run"
    /\ debugger_context.grammar.some
    /\ ~debugger_context.input.some
    /\ state.running

\* C25: the rule selected to run is one of the rule names shown in the App's
\* rule list, after any rule selections and grammar reloads.
C25_ToRunIsShown ==
    state.to_run \in Shown(state)

====
